---- MODULE Spec2Model ----
(***************************************************************************)
(* Model of webserver.py.                                                  *)
(*                                                                         *)
(* The template engine: TemplateEngine._compile turns a template source    *)
(* into the text of a Python function _render, and TemplateEngine.render   *)
(* executes that text against the context.  The variables src .. err are   *)
(* the locals of one call of render.                                       *)
(*                                                                         *)
(* The server: server is the WebServer object with its Router, os the      *)
(* process (its working directory, its files, what the module html binds   *)
(* to escape), conn the request the handler is working on (dir: the        *)
(* directory of the StaticHandler made for it, fn: the route handler       *)
(* called for it, resp: what has been written to the client), at the       *)
(* position of the main program.  hist records what has happened so far;   *)
(* the actions read it only to bound the number of calls.                  *)
(*                                                                         *)
(* A string is a sequence of one-character strings.  A generated program   *)
(* is a sequence of lines [ind, text]: ind is the number of four-space     *)
(* indentation units in front of the line, text is the rest of the line.   *)
(***************************************************************************)
EXTENDS Integers, Sequences, FiniteSets, TLC

VARIABLES src, context, pc, code, prog, ip, locals, taken, buf, out, err,
          server, os, conn, hist, at

\* everything outside a call of render
world == <<server, os, conn, hist, at>>

vars == <<src, context, pc, code, prog, ip, locals, taken, buf, out, err, world>>

(***************************************************************************)
(* Strings                                                                 *)
(***************************************************************************)
Max(a, b) == IF a >= b THEN a ELSE b

StartsWith(s, p) == Len(s) >= Len(p) /\ SubSeq(s, 1, Len(p)) = p

EndsWith(s, p) == Len(s) >= Len(p) /\ SubSeq(s, Len(s) - Len(p) + 1, Len(s)) = p

Drop(s, n) == SubSeq(s, n + 1, Len(s))

\* the strings of ss joined end to end; the two halves are joined
\* separately so that the nesting stays logarithmic in Len(ss)
RECURSIVE Concat(_)
Concat(ss) ==
    IF ss = <<>> THEN <<>>
    ELSE IF Len(ss) = 1 THEN ss[1]
    ELSE LET h == Len(ss) \div 2 IN
         Concat(SubSeq(ss, 1, h)) \o Concat(SubSeq(ss, h + 1, Len(ss)))

\* str.isspace for the characters of the model
IsSpace(c) == c \in {" ", "\n", "\r", "\t"}

RECURSIVE lstrip(_)
lstrip(s) == IF s # <<>> /\ IsSpace(Head(s)) THEN lstrip(Tail(s)) ELSE s

RECURSIVE rstrip(_)
rstrip(s) ==
    IF s # <<>> /\ IsSpace(s[Len(s)]) THEN rstrip(SubSeq(s, 1, Len(s) - 1)) ELSE s

\* str.strip()
strip(s) == rstrip(lstrip(s))

\* the delimiter tokens
StartCode == <<"<", "%">>
StartExpr == <<"<", "%", "=">>
EndTag == <<"%", ">">>

(***************************************************************************)
(* re.split(r'(<%=?|%>)', src): the texts between the matches and the      *)
(* matches themselves, alternating, beginning and ending with a text.      *)
(* The scan is leftmost; at one position <%=? is tried before %> and takes *)
(* the = when it is there; the scan goes on behind the match.              *)
(***************************************************************************)
MatchAt(s, i) ==
    i + 1 <= Len(s) /\ SubSeq(s, i, i + 1) \in {StartCode, EndTag}

MatchLen(s, i) ==
    IF SubSeq(s, i, i + 1) = StartCode /\ i + 2 <= Len(s) /\ s[i + 2] = "=" THEN 3 ELSE 2

RECURSIVE re_split_from(_, _)
re_split_from(s, from) ==
    LET found == {i \in from..Len(s) : MatchAt(s, i)} IN
    IF found = {} THEN <<SubSeq(s, from, Len(s))>>
    ELSE LET i == CHOOSE j \in found : \A k \in found : j <= k
             n == MatchLen(s, i)
         IN  <<SubSeq(s, from, i - 1), SubSeq(s, i, i + n - 1)>>
             \o re_split_from(s, i + n)

re_split(s) == re_split_from(s, 1)

(***************************************************************************)
(* str.splitlines(True): the lines of s, each with its line ending; the    *)
(* line endings of the model are \n, \r and \r\n.                          *)
(***************************************************************************)
RECURSIVE splitlines_from(_, _)
splitlines_from(s, cur) ==
    IF s = <<>> THEN (IF cur = <<>> THEN <<>> ELSE <<cur>>)
    ELSE IF Head(s) = "\r" /\ Len(s) >= 2 /\ s[2] = "\n"
         THEN <<cur \o <<"\r", "\n">> >> \o splitlines_from(Drop(s, 2), <<>>)
    ELSE IF Head(s) \in {"\n", "\r"}
         THEN <<Append(cur, Head(s))>> \o splitlines_from(Tail(s), <<>>)
    ELSE splitlines_from(Tail(s), Append(cur, Head(s)))

\* mutant: splitlines() without keepends, the line endings dropped
splitlines_nokeep(s) ==
    LET parts == splitlines_from(s, <<>>) IN
    [i \in 1..Len(parts) |-> SelectSeq(parts[i], LAMBDA c : c \notin {"\n", "\r"})]

splitlines(s) == splitlines_from(s, <<>>)

(***************************************************************************)
(* repr of a str (the {part!r} of the f-string): double quotes when the    *)
(* string holds ' and no ", single quotes otherwise; the quote character,  *)
(* the backslash and the control characters are escaped.                   *)
(***************************************************************************)
HasChar(s, c) == \E i \in 1..Len(s) : s[i] = c

ReprQuote(s) == IF HasChar(s, "'") /\ ~HasChar(s, "\"") THEN "\"" ELSE "'"

ReprChar(c, q) ==
    CASE c = "\\" -> <<"\\", "\\">>
      [] c = "\n" -> <<"\\", "n">>
      [] c = "\r" -> <<"\\", "r">>
      [] c = "\t" -> <<"\\", "t">>
      [] c = q -> <<"\\", q>>
      [] OTHER -> <<c>>

ReprBody(s, q) == Concat([i \in 1..Len(s) |-> ReprChar(s[i], q)])

repr(s) == <<ReprQuote(s)>> \o ReprBody(s, ReprQuote(s)) \o <<ReprQuote(s)>>

(***************************************************************************)
(* TemplateEngine._compile                                                 *)
(***************************************************************************)
kw_endif == <<"e", "n", "d", "i", "f">>
kw_else == <<"e", "l", "s", "e">>
kw_elif == <<"e", "l", "i", "f">>
DefRender == <<"d", "e", "f", " ", "_", "r", "e", "n", "d", "e", "r", "(", ")", ":">>
BufInit == <<"_", "b", "u", "f", " ", "=", " ", "[", "]">>
DefWrite == <<"d", "e", "f", " ", "w", "r", "i", "t", "e", "(", "s", ")", ":", " ", "_", "b", "u", "f", ".", "a", "p", "p", "e", "n", "d", "(", "s", "t", "r", "(", "s", ")", ")">>
ReturnJoin == <<"r", "e", "t", "u", "r", "n", " ", "'", "'", ".", "j", "o", "i", "n", "(", "_", "b", "u", "f", ")">>
WriteOpen == <<"w", "r", "i", "t", "e", "(">>
WriteClose == <<")">>
EscapeOpen == <<"w", "r", "i", "t", "e", "(", "h", "t", "m", "l", ".", "e", "s", "c", "a", "p", "e", "(", "s", "t", "r", "(">>
EscapeClose == <<")", ")", ")">>

\* "    " * indent + text: a negative count repeats the four spaces zero times
Line(indent, text) == [ind |-> Max(indent, 0), text |-> text]

\* the three lines _compile starts from; indent = 1, mode = "text"
Prologue == <<Line(0, DefRender), Line(1, BufInit), Line(1, DefWrite)>>

\* for part in tok.splitlines(True): if part: write({part!r})
RECURSIVE WriteLines(_, _)
WriteLines(parts, indent) ==
    IF parts = <<>> THEN <<>>
    ELSE (IF Head(parts) # <<>>
          THEN <<Line(indent, WriteOpen \o repr(Head(parts)) \o WriteClose)>>
          ELSE <<>>) \o WriteLines(Tail(parts), indent)

\* write(html.escape(str({expr})))
ExprLine(indent, tok) == Line(indent, EscapeOpen \o strip(tok) \o EscapeClose)

\* mutant: endif leaves indent as it is
CodeTok_keepIndent(st, tok) ==
    LET code_line == strip(tok) IN
    IF code_line = <<>> \/ code_line = kw_endif THEN st
    ELSE IF StartsWith(code_line, kw_else) \/ StartsWith(code_line, kw_elif)
         THEN [st EXCEPT !.lines = Append(st.lines, Line(st.indent - 1, code_line))]
    ELSE [st EXCEPT !.lines = Append(st.lines, Line(st.indent, code_line)),
                    !.indent = IF EndsWith(code_line, <<":">>)
                               THEN st.indent + 1 ELSE st.indent]

\* mutant: a statement that opens no block is not written to the program
CodeTok_blocksOnly(st, tok) ==
    LET code_line == strip(tok) IN
    IF code_line = <<>> THEN st
    ELSE IF code_line = kw_endif THEN [st EXCEPT !.indent = st.indent - 1]
    ELSE IF StartsWith(code_line, kw_else) \/ StartsWith(code_line, kw_elif)
         THEN [st EXCEPT !.lines = Append(st.lines, Line(st.indent - 1, code_line))]
    ELSE IF EndsWith(code_line, <<":">>)
         THEN [st EXCEPT !.lines = Append(st.lines, Line(st.indent, code_line)),
                         !.indent = st.indent + 1]
    ELSE st

\* the mode == "code" branch of the loop body
CodeTok(st, tok) ==
    LET code_line == strip(tok) IN
    IF code_line = <<>> THEN st
    ELSE IF code_line = kw_endif THEN [st EXCEPT !.indent = st.indent - 1]
    ELSE IF StartsWith(code_line, kw_else) \/ StartsWith(code_line, kw_elif)
         THEN [st EXCEPT !.lines = Append(st.lines, Line(st.indent - 1, code_line))]
    ELSE [st EXCEPT !.lines = Append(st.lines, Line(st.indent, code_line)),
                    !.indent = IF EndsWith(code_line, <<":">>)
                               THEN st.indent + 1 ELSE st.indent]

\* one turn of the loop `for tok in tokens`
CompileTok(st, tok) ==
    IF tok = StartCode THEN [st EXCEPT !.mode = "code"]
    ELSE IF tok = StartExpr THEN [st EXCEPT !.mode = "expr"]
    ELSE IF tok = EndTag THEN [st EXCEPT !.mode = "text"]
    ELSE IF st.mode = "text"
         THEN [st EXCEPT !.lines = st.lines \o WriteLines(splitlines(tok), st.indent)]
    ELSE IF st.mode = "expr"
         THEN [st EXCEPT !.lines = Append(st.lines, ExprLine(st.indent, tok))]
    ELSE CodeTok(st, tok)

\* the values of mode
Modes == {"text", "code", "expr"}

\* the loop `for tok in tokens` from the state st: the turns for the first
\* half of the tokens, then the turns for the second half from the state
\* those leave.  The test of st.mode is never true; it has the state the
\* turns before have left evaluated before the next turn is taken.
RECURSIVE CompileLoop(_, _)
CompileLoop(st, tokens) ==
    IF tokens = <<>> \/ st.mode \notin Modes THEN st
    ELSE IF Len(tokens) = 1 THEN CompileTok(st, tokens[1])
    ELSE LET h == Len(tokens) \div 2 IN
         CompileLoop(CompileLoop(st, SubSeq(tokens, 1, h)),
                     SubSeq(tokens, h + 1, Len(tokens)))

\* the state of the loop after the last token
LoopEnd(s) ==
    CompileLoop([mode |-> "text", indent |-> 1, lines |-> Prologue], re_split(s))

\* lines.append("    return ''.join(_buf)"): the return is indented once,
\* whatever indent is by then.  The result is the list of lines that
\* "\n".join glues together; no line of the model holds a raw line break.
_compile(s) == Append(LoopEnd(s).lines, Line(1, ReturnJoin))

(***************************************************************************)
(* Python values.  Every value is a record of one shape: t is the type, s  *)
(* the characters of a str, n the number of an int or bool, l the items of *)
(* a list of str; for a function or a builtin, s is its name.              *)
(***************************************************************************)
StrV(s) == [t |-> "str", s |-> s, n |-> 0, l |-> <<>>]
IntV(n) == [t |-> "int", s |-> <<>>, n |-> n, l |-> <<>>]
BoolV(b) == [t |-> "bool", s |-> <<>>, n |-> IF b THEN 1 ELSE 0, l |-> <<>>]
ListV(l) == [t |-> "list", s |-> <<>>, n |-> 0, l |-> l]
ObjV(kind) == [t |-> kind, s |-> <<>>, n |-> 0, l |-> <<>>]

Digit(d) == <<"0", "1", "2", "3", "4", "5", "6", "7", "8", "9">>[d + 1]

RECURSIVE NatStr(_)
NatStr(n) == IF n < 10 THEN <<Digit(n)>> ELSE Append(NatStr(n \div 10), Digit(n % 10))

RECURSIVE Join(_, _)
Join(sep, ss) ==
    IF ss = <<>> THEN <<>>
    ELSE IF Len(ss) = 1 THEN Head(ss)
    ELSE Head(ss) \o sep \o Join(sep, Tail(ss))

RECURSIVE ReprAll(_)
ReprAll(ss) == IF ss = <<>> THEN <<>> ELSE <<repr(Head(ss))>> \o ReprAll(Tail(ss))

\* str(v).  The text of a module, function or class object is cut down to
\* its name: the file path and the address in it differ from run to run.
str(v) ==
    CASE v.t = "str" -> v.s
      [] v.t = "int" -> IF v.n < 0 THEN <<"-">> \o NatStr(-v.n) ELSE NatStr(v.n)
      [] v.t = "bool" -> IF v.n = 1 THEN <<"T", "r", "u", "e">> ELSE <<"F", "a", "l", "s", "e">>
      [] v.t = "list" -> <<"[">> \o Join(<<",", " ">>, ReprAll(v.l)) \o <<"]">>
      [] v.t = "module" -> <<"<", "m", "o", "d", "u", "l", "e", " ", "'", "h", "t", "m", "l", "'", ">">>
      [] v.t = "function" -> <<"<", "f", "u", "n", "c", "t", "i", "o", "n", ">">>
      [] OTHER -> <<"<", "b", "u", "i", "l", "t", "-", "i", "n", ">">>

\* bool(v), as `if` and `elif` take it
Truthy(v) ==
    CASE v.t = "str" -> v.s # <<>>
      [] v.t \in {"int", "bool"} -> v.n # 0
      [] v.t = "list" -> v.l # <<>>
      [] OTHER -> TRUE

\* s.replace(c, r) for a one-character c
Replace(s, c, r) == Concat([i \in 1..Len(s) |-> IF s[i] = c THEN r ELSE <<s[i]>>])

\* mutant: html.escape(s, quote=False), the quotes left as they are
html_escape_noquote(s) ==
    LET s1 == Replace(s, "&", <<"&", "a", "m", "p", ";">>)
        s2 == Replace(s1, "<", <<"&", "l", "t", ";">>)
    IN  Replace(s2, ">", <<"&", "g", "t", ";">>)

\* html.escape(s, quote=True): & is replaced first, then < and >, then the quotes
html_escape(s) ==
    LET s1 == Replace(s, "&", <<"&", "a", "m", "p", ";">>)
        s2 == Replace(s1, "<", <<"&", "l", "t", ";">>)
        s3 == Replace(s2, ">", <<"&", "g", "t", ";">>)
        s4 == Replace(s3, "\"", <<"&", "q", "u", "o", "t", ";">>)
    IN  Replace(s4, "'", <<"&", "#", "x", "2", "7", ";">>)

(***************************************************************************)
(* exec(code, namespace): how Python reads the generated lines.            *)
(* The statements of the model are the ones _compile writes and the ones   *)
(* the templates of the model hold: write(<string literal>),               *)
(* write(html.escape(str(<expression>))), <name> = <expression>,           *)
(* if/elif <expression>:, else:, html.escape = <expression>, and the fixed  *)
(* first and last lines.  An expression is a name, a decimal number, True  *)
(* or False; what html.escape is set to is a builtin or no name at all.    *)
(***************************************************************************)
IdentChars ==
    {"a", "b", "c", "d", "e", "f", "g", "h", "i", "j", "k", "l", "m", "n", "o",
     "p", "q", "r", "s", "t", "u", "v", "w", "x", "y", "z", "_"}

Digits == {"0", "1", "2", "3", "4", "5", "6", "7", "8", "9"}

Keywords ==
    {<<"i", "f">>, <<"e", "l", "i", "f">>, <<"e", "l", "s", "e">>, <<"d", "e", "f">>,
     <<"r", "e", "t", "u", "r", "n">>, <<"n", "o", "t">>, <<"o", "r">>, <<"a", "n", "d">>,
     <<"i", "n">>, <<"i", "s">>}

s_True == <<"T", "r", "u", "e">>
s_False == <<"F", "a", "l", "s", "e">>

IdentTail == IdentChars \cup Digits

IsIdent(s) ==
    /\ s # <<>>
    /\ \A i \in 1..Len(s) : s[i] \in IdentTail
    /\ s[1] \notin Digits
    /\ s \notin Keywords

IsIntLit(s) ==
    /\ s # <<>>
    /\ \A i \in 1..Len(s) : s[i] \in Digits
    /\ (Len(s) > 1 => s[1] # "0")

IsExpr(s) == IsIdent(s) \/ IsIntLit(s) \/ s \in {s_True, s_False}

DigitVal(c) == CHOOSE d \in 0..9 : Digit(d) = c

RECURSIVE IntLitVal(_)
IntLitVal(s) ==
    IF s = <<>> THEN 0 ELSE 10 * IntLitVal(SubSeq(s, 1, Len(s) - 1)) + DigitVal(s[Len(s)])

\* the inside of a string literal between quotes q
RECURSIVE LitBodyOK(_, _)
LitBodyOK(b, q) ==
    IF b = <<>> THEN TRUE
    ELSE IF Head(b) = "\\"
         THEN Len(b) >= 2 /\ b[2] \in {"\\", "n", "r", "t", "'", "\""}
              /\ LitBodyOK(Drop(b, 2), q)
    ELSE Head(b) \notin {q, "\n", "\r"} /\ LitBodyOK(Tail(b), q)

IsStrLit(l) ==
    /\ Len(l) >= 2
    /\ l[1] \in {"'", "\""}
    /\ l[Len(l)] = l[1]
    /\ LitBodyOK(SubSeq(l, 2, Len(l) - 1), l[1])

Unescape(c) ==
    CASE c = "n" -> "\n"
      [] c = "r" -> "\r"
      [] c = "t" -> "\t"
      [] OTHER -> c

RECURSIVE LitBodyVal(_)
LitBodyVal(b) ==
    IF b = <<>> THEN <<>>
    ELSE IF Head(b) = "\\" THEN <<Unescape(b[2])>> \o LitBodyVal(Drop(b, 2))
    ELSE <<Head(b)>> \o LitBodyVal(Tail(b))

\* the str a string literal denotes
StrLitVal(l) == LitBodyVal(SubSeq(l, 2, Len(l) - 1))

\* the names of the builtins module the templates of the model use
Builtins == {<<"l", "e", "n">>, <<"s", "t", "r">>}

IfOpen == <<"i", "f", " ">>
ElifOpen == <<"e", "l", "i", "f", " ">>
ElseLine == <<"e", "l", "s", "e", ":">>
AssignOp == <<" ", "=", " ">>
SetEscape == <<"h", "t", "m", "l", ".", "e", "s", "c", "a", "p", "e", " ", "=", " ">>

Between(s, pre, suf) == SubSeq(s, Len(pre) + 1, Len(s) - Len(suf))

Wrapped(s, pre, suf) ==
    Len(s) >= Len(pre) + Len(suf) /\ StartsWith(s, pre) /\ EndsWith(s, suf)

\* the positions i where text reads <name> = <expression>, the name ending at i
AssignSplits(text) ==
    {i \in 1..(Len(text) - 4) :
        /\ SubSeq(text, i + 1, i + 3) = AssignOp
        /\ IsIdent(SubSeq(text, 1, i))
        /\ IsExpr(Drop(text, i + 3))}

\* the statement a line is: its kind and its operands
Parse(text) ==
    LET stmt(k, a, b) == [kind |-> k, a |-> a, b |-> b] IN
    IF text = DefRender THEN stmt("def", <<>>, <<>>)
    ELSE IF text = BufInit THEN stmt("bufinit", <<>>, <<>>)
    ELSE IF text = DefWrite THEN stmt("defwrite", <<>>, <<>>)
    ELSE IF text = ReturnJoin THEN stmt("return", <<>>, <<>>)
    ELSE IF text = ElseLine THEN stmt("else", <<>>, <<>>)
    ELSE IF Wrapped(text, EscapeOpen, EscapeClose)
            /\ (Between(text, EscapeOpen, EscapeClose) = <<>>
                \/ IsExpr(Between(text, EscapeOpen, EscapeClose)))
         THEN stmt("escape", Between(text, EscapeOpen, EscapeClose), <<>>)
    ELSE IF Wrapped(text, WriteOpen, WriteClose)
            /\ IsStrLit(Between(text, WriteOpen, WriteClose))
         THEN stmt("write", Between(text, WriteOpen, WriteClose), <<>>)
    ELSE IF Wrapped(text, IfOpen, <<":">>) /\ IsExpr(strip(Between(text, IfOpen, <<":">>)))
         THEN stmt("if", strip(Between(text, IfOpen, <<":">>)), <<>>)
    ELSE IF Wrapped(text, ElifOpen, <<":">>) /\ IsExpr(strip(Between(text, ElifOpen, <<":">>)))
         THEN stmt("elif", strip(Between(text, ElifOpen, <<":">>)), <<>>)
    ELSE IF AssignSplits(text) # {}
         THEN LET i == CHOOSE j \in AssignSplits(text) : TRUE
              IN  stmt("assign", SubSeq(text, 1, i), Drop(text, i + 3))
    ELSE IF StartsWith(text, SetEscape)
            /\ IsExpr(Drop(text, Len(SetEscape)))
            /\ (IsIdent(Drop(text, Len(SetEscape))) => Drop(text, Len(SetEscape)) \in Builtins)
         THEN stmt("setattr", Drop(text, Len(SetEscape)), <<>>)
    ELSE stmt("other", <<>>, <<>>)

\* the statements of a program: each line's indentation and statement
ParseAll(c) ==
    [i \in 1..Len(c) |->
        LET p == Parse(c[i].text) IN [ind |-> c[i].ind, kind |-> p.kind, a |-> p.a, b |-> p.b]]

Kind(c, i) == c[i].kind

\* a statement that opens a block: the next line must be indented deeper
Opens(c, i) == Kind(c, i) \in {"def", "if", "elif", "else"}

\* the statement before line i in the block of line i, or 0
PrevInBlock(c, i) ==
    LET js == {j \in 1..(i - 1) :
                  c[j].ind = c[i].ind /\ \A m \in (j + 1)..(i - 1) : c[m].ind > c[i].ind}
    IN  IF js = {} THEN 0 ELSE CHOOSE j \in js : \A k \in js : k <= j

\* what compile() accepts of a parsed program c: a block opener is followed
\* by a deeper line and nothing else is (IndentationError otherwise); a
\* dedent returns to the level of an enclosing block; elif and else continue
\* an if of their own block; no line after the first stands at the module
\* level, where it would leave the indented return outside the function.
SyntaxOK(c) ==
    /\ c[1].ind = 0
    /\ \A i \in 2..Len(c) :
          /\ IF Opens(c, i - 1) THEN c[i].ind > c[i - 1].ind ELSE c[i].ind <= c[i - 1].ind
          /\ c[i].ind < c[i - 1].ind => PrevInBlock(c, i) # 0
          /\ Kind(c, i) \in {"elif", "else"} =>
                PrevInBlock(c, i) # 0 /\ Kind(c, PrevInBlock(c, i)) \in {"if", "elif"}
          /\ c[i].ind >= 1
    /\ ~Opens(c, Len(c))

\* the lines the model gives no meaning to
Unmodelled(c) == \E i \in 1..Len(c) : Kind(c, i) = "other"

n_html == <<"h", "t", "m", "l">>
n_buf == <<"_", "b", "u", "f">>
n_write == <<"w", "r", "i", "t", "e">>
n_render == <<"_", "r", "e", "n", "d", "e", "r">>

\* namespace = dict(context, html=html)
Namespace(ctx) ==
    [n \in DOMAIN ctx \cup {n_html} |-> IF n = n_html THEN ObjV("module") ELSE ctx[n]]

\* the names some statement of _render assigns: Python makes each of them a
\* local variable of the whole function body
AssignedNames(c) == {c[i].a : i \in {j \in 1..Len(c) : Kind(c, j) = "assign"}}

Ok(v) == [err |-> "", v |-> v]
Raise(e) == [err |-> e, v |-> ObjV("none")]

\* the value of a name inside _render: a local of the function, then the
\* globals (the namespace, to which exec has added _render), then builtins
Lookup(name) ==
    IF name \in AssignedNames(prog)
    THEN (IF name \in DOMAIN locals THEN Ok(locals[name]) ELSE Raise("UnboundLocalError"))
    ELSE IF name = n_buf THEN Ok(ListV(buf))
    ELSE IF name = n_write THEN Ok(ObjV("function"))
    ELSE IF name \in DOMAIN Namespace(context) THEN Ok(Namespace(context)[name])
    ELSE IF name = n_render THEN Ok(ObjV("function"))
    ELSE IF name \in Builtins THEN Ok([ObjV("builtin") EXCEPT !.s = name])
    ELSE Raise("NameError")

Eval(e) ==
    IF e = s_True THEN Ok(BoolV(TRUE))
    ELSE IF e = s_False THEN Ok(BoolV(FALSE))
    ELSE IF IsIntLit(e) THEN Ok(IntV(IntLitVal(e)))
    ELSE Lookup(e)

\* the line after the block that line i opens
SkipBlock(c, i) ==
    CHOOSE j \in (i + 1)..Len(c) :
        c[j].ind <= c[i].ind /\ \A m \in (i + 1)..(j - 1) : c[m].ind > c[i].ind

\* the function the module html binds to the name escape when it is loaded
EscapeFn == [ObjV("function") EXCEPT !.s = <<"e", "s", "c", "a", "p", "e">>]

\* f(s) for the object f that html.escape is bound to and a str s
CallEscape(f, s) ==
    IF f = EscapeFn THEN Ok(StrV(html_escape(s)))
    ELSE IF f.t = "builtin" /\ f.s = <<"s", "t", "r">> THEN Ok(StrV(s))
    ELSE IF f.t = "builtin" /\ f.s = <<"l", "e", "n">> THEN Ok(IntV(Len(s)))
    ELSE Raise("TypeError")

(***************************************************************************)
(* TemplateEngine.render                                                   *)
(***************************************************************************)
Stmt == prog[ip]

Fail(e) ==
    /\ pc' = "error"
    /\ err' = e
    /\ UNCHANGED <<src, context, code, prog, ip, locals, taken, buf, out, world>>

\* src = open(path).read(); code = self._compile(src)
Compile ==
    /\ pc = "start"
    /\ code' = _compile(src)
    /\ pc' = "compiled"
    /\ UNCHANGED <<src, context, prog, ip, locals, taken, buf, out, err, world>>

\* exec(code, namespace) raises SyntaxError: render returns nothing
ExecSyntaxError ==
    /\ pc = "compiled"
    /\ LET p == ParseAll(code) IN ~Unmodelled(p) /\ ~SyntaxOK(p)
    /\ Fail("SyntaxError")

\* exec(code, namespace) defines _render; namespace["_render"]() runs
\* _buf = [] and def write, and stands before the first line of the template
ExecCall ==
    /\ pc = "compiled"
    /\ LET p == ParseAll(code) IN ~Unmodelled(p) /\ SyntaxOK(p) /\ prog' = p
    /\ pc' = "running"
    /\ ip' = Len(Prologue) + 1
    /\ buf' = <<>>
    /\ UNCHANGED <<src, context, code, locals, taken, out, err, world>>

\* write('...'): _buf.append(str(s))
StepWrite ==
    /\ pc = "running"
    /\ Stmt.kind = "write"
    /\ buf' = Append(buf, str(StrV(StrLitVal(Stmt.a))))
    /\ ip' = ip + 1
    /\ UNCHANGED <<src, context, pc, code, prog, locals, taken, out, err, world>>

\* write(html.escape(str(expr))); str() with no argument is the empty str;
\* html.escape is what the module html binds to escape at that moment
StepEscape ==
    /\ pc = "running"
    /\ Stmt.kind = "escape"
    /\ LET r == IF Stmt.a = <<>> THEN Ok(StrV(<<>>)) ELSE Eval(Stmt.a)
           e == IF r.err # "" THEN r ELSE CallEscape(os.escape, str(r.v))
       IN  IF e.err # "" THEN Fail(e.err)
           ELSE /\ buf' = Append(buf, str(e.v))
                /\ ip' = ip + 1
                /\ UNCHANGED <<src, context, pc, code, prog, locals, taken, out, err, world>>

\* html.escape = expr: the attribute of the module object, which every
\* namespace holds under the name html
StepSetAttr ==
    /\ pc = "running"
    /\ Stmt.kind = "setattr"
    /\ LET r == Eval(Stmt.a)
           m == IF r.err # "" THEN r ELSE Lookup(n_html)
       IN  IF m.err # "" THEN Fail(m.err)
           ELSE IF m.v.t # "module" THEN Fail("AttributeError")
           ELSE /\ os' = [os EXCEPT !.escape = r.v]
                /\ ip' = ip + 1
                /\ UNCHANGED <<src, context, pc, code, prog, locals, taken, buf, out, err,
                               server, conn, hist, at>>

\* name = expr
StepAssign ==
    /\ pc = "running"
    /\ Stmt.kind = "assign"
    /\ LET r == Eval(Stmt.b) IN
       IF r.err # "" THEN Fail(r.err)
       ELSE /\ locals' = [n \in DOMAIN locals \cup {Stmt.a} |->
                             IF n = Stmt.a THEN r.v ELSE locals[n]]
            /\ ip' = ip + 1
            /\ UNCHANGED <<src, context, pc, code, prog, taken, buf, out, err, world>>

\* if expr: / elif expr: the body runs when no earlier branch of the chain
\* ran and expr is true; `taken` holds the levels whose chain has run a branch
StepIf ==
    /\ pc = "running"
    /\ Stmt.kind \in {"if", "elif"}
    /\ LET k == prog[ip].ind IN
       IF Stmt.kind = "elif" /\ k \in taken
       THEN /\ ip' = SkipBlock(prog, ip)
            /\ UNCHANGED <<src, context, pc, code, prog, locals, taken, buf, out, err, world>>
       ELSE LET r == Eval(Stmt.a) IN
            IF r.err # "" THEN Fail(r.err)
            ELSE /\ taken' = IF Truthy(r.v) THEN taken \cup {k} ELSE taken \ {k}
                 /\ ip' = IF Truthy(r.v) THEN ip + 1 ELSE SkipBlock(prog, ip)
                 /\ UNCHANGED <<src, context, pc, code, prog, locals, buf, out, err, world>>

\* else: the body runs when no branch of the chain ran
StepElse ==
    /\ pc = "running"
    /\ Stmt.kind = "else"
    /\ ip' = IF prog[ip].ind \in taken THEN SkipBlock(prog, ip) ELSE ip + 1
    /\ UNCHANGED <<src, context, pc, code, prog, locals, taken, buf, out, err, world>>

\* return ''.join(_buf)
StepReturn ==
    /\ pc = "running"
    /\ Stmt.kind = "return"
    /\ out' = Concat(buf)
    /\ pc' = "done"
    /\ UNCHANGED <<src, context, code, prog, ip, locals, taken, buf, err, world>>

(***************************************************************************)
(* The templates and contexts render is called with                        *)
(***************************************************************************)
MaxLen == 3
MaxBlockChunks == 4
MaxStmtChunks == 3

SeqsUpTo(S, n) == UNION {[1..k -> S] : k \in 0..n}

Contains(s, p) == \E i \in 1..(Len(s) - Len(p) + 1) : SubSeq(s, i, i + Len(p) - 1) = p

EmptyDict == [n \in {} |-> ObjV("none")]

\* literal text: the characters the lexer, splitlines and repr look at
TextChars == {"a", "\n", "\r", "<", "%", ">", "'", "\"", "\\"}

\* texts in which no tag opens (an end marker %> may stand in them), with
\* an empty context and with one that holds the name a
TextInput ==
    \E s \in SeqsUpTo(TextChars, MaxLen),
       ctx \in {EmptyDict, [n \in {<<"a">>} |-> StrV(<<"z">>)]} :
        ~Contains(s, StartCode) /\ src = s /\ context = ctx

\* one expression tag, alone and between text, over every value of v
EscChars == {"&", "<", ">", "\"", "'", "b", ";"}

TagV == <<"<", "%", "=", " ", "v", " ", "%", ">">>

ValueInput ==
    \E s \in {TagV, <<"a">> \o TagV \o <<"\n">>},
       w \in {StrV(t) : t \in SeqsUpTo(EscChars, MaxLen)} \cup {IntV(10), BoolV(TRUE)} :
        src = s /\ context = [n \in {<<"v">>} |-> w]

\* if / elif / else / endif tags, with a body and without, and text
TagIf == <<"<", "%", " ", "i", "f", " ", "c", ":", " ", "%", ">">>
TagElif == <<"<", "%", " ", "e", "l", "i", "f", " ", "d", ":", " ", "%", ">">>
TagElse == <<"<", "%", " ", "e", "l", "s", "e", ":", " ", "%", ">">>
TagEndif == <<"<", "%", " ", "e", "n", "d", "i", "f", " ", "%", ">">>

BlockChunks ==
    {TagIf \o <<"A">>, TagElif \o <<"B">>, TagElse, TagElse \o <<"C">>, TagEndif, <<"T">>}

BlockInput ==
    \E cs \in SeqsUpTo(BlockChunks, MaxBlockChunks), c \in BOOLEAN, d \in BOOLEAN :
        /\ src = Concat(cs)
        /\ context = [n \in {<<"c">>, <<"d">>} |-> BoolV(IF n = <<"c">> THEN c ELSE d)]

\* an assignment, expressions and a condition over the assigned name, an
\* expression over an undefined name, a conditional with an empty body, and
\* a last tag that is never closed; the context holds x = 0 or no x
TagAssign == <<"<", "%", " ", "x", " ", "=", " ", "1", " ", "%", ">">>
TagX == <<"<", "%", "=", " ", "x", " ", "%", ">">>
TagIfX == <<"<", "%", " ", "i", "f", " ", "x", ":", " ", "%", ">">>
TagU == <<"<", "%", "=", " ", "u", " ", "%", ">">>
TagHtml == <<"<", "%", "=", " ", "h", "t", "m", "l", " ", "%", ">">>
TagBuf == <<"<", "%", "=", " ", "_", "b", "u", "f", " ", "%", ">">>
TagLen == <<"<", "%", "=", " ", "l", "e", "n", " ", "%", ">">>
OpenAssign == <<"<", "%", " ", "x", " ", "=", " ", "1">>
OpenX == <<"<", "%", "=", " ", "x">>

StmtChunks == {TagAssign, TagX, TagIfX, TagU, TagIf, TagEndif, <<"T">>}

StmtTails == {<<>>, OpenAssign, OpenX}

StmtContexts ==
    {[n \in {<<"c">>} |-> BoolV(c)] : c \in BOOLEAN}
    \cup {[n \in {<<"c">>, <<"x">>} |-> IF n = <<"c">> THEN BoolV(c) ELSE IntV(0)] :
              c \in BOOLEAN}

StmtInput ==
    \E cs \in SeqsUpTo(StmtChunks, MaxStmtChunks), t \in StmtTails, ctx \in StmtContexts :
        src = Concat(cs) \o t /\ context = ctx

\* expressions over names that are no keys of the context: the escaping
\* module, the output buffer, a builtin
NameChunks == {TagHtml, TagBuf, TagLen, <<"T">>}

NameInput ==
    \E cs \in SeqsUpTo(NameChunks, MaxStmtChunks),
       ctx \in {EmptyDict, [n \in {n_html} |-> StrV(<<"h">>)]} :
        src = Concat(cs) /\ context = ctx

\* statements whose text begins with the letters of a control keyword and
\* is none: an assignment to a name elsewhere, alone, after text and inside
\* an if block
TagElsewhere == <<"<", "%", " ", "e", "l", "s", "e", "w", "h", "e", "r", "e", " ", "=", " ", "1", " ", "%", ">">>
TagE == <<"<", "%", "=", " ", "e", "l", "s", "e", "w", "h", "e", "r", "e", " ", "%", ">">>

KeywordTemplates ==
    {TagElsewhere \o TagE, <<"T">> \o TagElsewhere,
     TagIf \o TagElsewhere \o TagE \o TagEndif,
     TagIf \o <<"A">> \o TagElsewhere \o TagE \o TagEndif}

KeywordInput ==
    \E s \in KeywordTemplates, c \in BOOLEAN :
        src = s /\ context = [n \in {<<"c">>} |-> BoolV(c)]

\* None
None == "None"

\* nothing has been written to the client
NoResponse == [status |-> 0, headers |-> <<>>, body |-> <<>>]

\* no request has been received
NoConn ==
    [method |-> <<>>, path |-> <<>>, clen |-> <<>>, body |-> <<>>, step |-> "none",
     dir |-> <<>>, fn |-> None, resp |-> NoResponse]

\* no WebServer has been made: render is called on an engine of its own
NoWorld ==
    /\ server = [root |-> None, routes |-> <<>>, statics |-> <<>>, orig |-> None,
                 httpd |-> None]
    /\ os = [cwd |-> None, dirs |-> {}, files |-> <<>>, bound |-> FALSE, escape |-> EscapeFn]
    /\ conn = NoConn
    /\ hist = None
    /\ at = "render"

Init ==
    /\ TextInput \/ ValueInput \/ BlockInput \/ StmtInput \/ NameInput \/ KeywordInput
    /\ pc = "start"
    /\ code = <<>>
    /\ prog = <<>>
    /\ ip = 0
    /\ locals = EmptyDict
    /\ taken = {}
    /\ buf = <<>>
    /\ out = <<>>
    /\ err = ""
    /\ NoWorld

Next ==
    \/ Compile
    \/ ExecSyntaxError
    \/ ExecCall
    \/ StepWrite
    \/ StepEscape
    \/ StepAssign
    \/ StepIf
    \/ StepElse
    \/ StepReturn

Spec == Init /\ [][Next]_vars

\* every line of every generated program is a statement the model reads
AllModelled == pc = "compiled" => ~Unmodelled(ParseAll(code))

(***************************************************************************)
(* Router                                                                  *)
(***************************************************************************)
LowerLetters ==
    <<"a", "b", "c", "d", "e", "f", "g", "h", "i", "j", "k", "l", "m",
      "n", "o", "p", "q", "r", "s", "t", "u", "v", "w", "x", "y", "z">>

UpperLetters ==
    <<"A", "B", "C", "D", "E", "F", "G", "H", "I", "J", "K", "L", "M",
      "N", "O", "P", "Q", "R", "S", "T", "U", "V", "W", "X", "Y", "Z">>

\* the upper-case letter of each lower-case letter
UpperOf == [c \in {LowerLetters[k] : k \in 1..26} |->
               UpperLetters[CHOOSE k \in 1..26 : LowerLetters[k] = c]]

\* str.upper() over the letters a-z; every other character stays
upper(s) == [i \in 1..Len(s) |-> IF s[i] \in DOMAIN UpperOf THEN UpperOf[s[i]] ELSE s[i]]

\* mutant: the method is stored as it was given
add_asGiven(routes, method, path, handler) ==
    [k \in DOMAIN routes \cup {<<method, path>>} |->
        IF k = <<method, path>> THEN handler ELSE routes[k]]

\* self._routes[(method.upper(), path)] = handler
add(routes, method, path, handler) ==
    [k \in DOMAIN routes \cup {<<upper(method), path>>} |->
        IF k = <<upper(method), path>> THEN handler ELSE routes[k]]

\* self._routes.get((method.upper(), path))
match(routes, method, path) ==
    IF <<upper(method), path>> \in DOMAIN routes
    THEN routes[<<upper(method), path>>]
    ELSE None

\* the handler functions of the module
Handlers == {"index_handler", "hello_handler", "whatsup_handler"}

m_GET == <<"G", "E", "T">>
m_POST == <<"P", "O", "S", "T">>

\* no call of render is under way
NoRender ==
    /\ src = <<>>
    /\ context = EmptyDict
    /\ pc = "idle"
    /\ code = <<>>
    /\ prog = <<>>
    /\ ip = 0
    /\ locals = EmptyDict
    /\ taken = {}
    /\ buf = <<>>
    /\ out = <<>>
    /\ err = ""

(***************************************************************************)
(* A Router on its own: any sequence of add calls                          *)
(***************************************************************************)
MaxAdds == 3

\* the methods and paths add is called with: one method in two spellings
\* and another method; paths that differ in the case of a letter and in a
\* trailing slash.  match is called with one more spelling.
RouterMethods == {m_GET, <<"g", "e", "t">>, m_POST}

MatchMethods == RouterMethods \cup {<<"G", "e", "t">>, <<"p", "o", "s", "t">>}

RouterPaths == {<<"/", "a">>, <<"/", "A">>, <<"/", "a", "/">>}

\* Router.__init__: self._routes = {}
RouterInit ==
    /\ NoRender
    /\ server = [root |-> None, routes |-> <<>>, statics |-> <<>>, orig |-> None,
                 httpd |-> None]
    /\ os = [cwd |-> None, dirs |-> {}, files |-> <<>>, bound |-> FALSE, escape |-> EscapeFn]
    /\ conn = NoConn
    /\ hist = <<>>
    /\ at = "router"

\* Router.add; hist is the sequence of the calls made
RouterAdd(method, path, handler) ==
    /\ at = "router"
    /\ Len(hist) < MaxAdds
    /\ server' = [server EXCEPT !.routes = add(@, method, path, handler)]
    /\ hist' = Append(hist, [method |-> method, path |-> path, handler |-> handler])
    /\ UNCHANGED <<src, context, pc, code, prog, ip, locals, taken, buf, out, err,
                   os, conn, at>>

RouterNext ==
    \E method \in RouterMethods, path \in RouterPaths, handler \in Handlers \ {"whatsup_handler"} :
        RouterAdd(method, path, handler)

RouterSpec == RouterInit /\ [][RouterNext]_vars

(***************************************************************************)
(* Request targets: urllib.parse.urlparse and parse_qs as do_GET and       *)
(* do_POST use them.  A target holds no white space (the request line is   *)
(* split at it), and the targets of the model hold printable ASCII only.   *)
(***************************************************************************)
\* str.find(c, from): the first position of c at or after from, 0 when none
Find(s, c, from) ==
    IF \E i \in from..Len(s) : s[i] = c
    THEN CHOOSE i \in from..Len(s) : s[i] = c /\ \A j \in from..(i - 1) : s[j] # c
    ELSE 0

\* str.rfind(c): the last position of c, 0 when none
RFind(s, c) ==
    IF HasChar(s, c)
    THEN CHOOSE i \in 1..Len(s) : s[i] = c /\ \A j \in (i + 1)..Len(s) : s[j] # c
    ELSE 0

\* the lower-case letter of each upper-case letter
LowerOf == [c \in {UpperLetters[k] : k \in 1..26} |->
               LowerLetters[CHOOSE k \in 1..26 : UpperLetters[k] = c]]

\* str.lower() over the letters A-Z
lower(s) == [i \in 1..Len(s) |-> IF s[i] \in DOMAIN LowerOf THEN LowerOf[s[i]] ELSE s[i]]

Letters == DOMAIN UpperOf \cup DOMAIN LowerOf

\* urllib.parse.scheme_chars
scheme_chars == Letters \cup Digits \cup {"+", "-", "."}

\* urllib.parse.uses_params
uses_params ==
    {<<>>, <<"f", "t", "p">>, <<"h", "d", "l">>,
     <<"p", "r", "o", "s", "p", "e", "r", "o">>, <<"h", "t", "t", "p">>,
     <<"i", "m", "a", "p">>, <<"h", "t", "t", "p", "s">>,
     <<"s", "h", "t", "t", "p">>, <<"r", "t", "s", "p">>,
     <<"r", "t", "s", "p", "s">>, <<"r", "t", "s", "p", "u">>, <<"s", "i", "p">>,
     <<"s", "i", "p", "s">>, <<"m", "m", "s">>, <<"s", "f", "t", "p">>,
     <<"t", "e", "l">>}

\* the position of the first of / ? # at or after from, Len(s) + 1 when none
NetlocEnd(s, from) ==
    LET hits == {i \in from..Len(s) : s[i] \in {"/", "?", "#"}} IN
    IF hits = {} THEN Len(s) + 1 ELSE CHOOSE i \in hits : \A j \in hits : i <= j

\* s.split(c, 1): the part before the first c and the part after it
Before(s, c) == IF HasChar(s, c) THEN SubSeq(s, 1, Find(s, c, 1) - 1) ELSE s

After(s, c) == IF HasChar(s, c) THEN Drop(s, Find(s, c, 1)) ELSE <<>>

\* urllib.parse.urlsplit.  ok is FALSE when it raises ValueError: a netloc
\* with one of [ and ] but not the other.  A netloc with both is checked as
\* an IP literal, which the model leaves out: no target of the model has one.
urlsplit(url) ==
    LET i == Find(url, ":", 1)
        hasScheme == /\ i > 1
                     /\ url[1] \in Letters
                     /\ \A k \in 1..(i - 1) : url[k] \in scheme_chars
        scheme == IF hasScheme THEN lower(SubSeq(url, 1, i - 1)) ELSE <<>>
        u1 == IF hasScheme THEN Drop(url, i) ELSE url
        hasNet == StartsWith(u1, <<"/", "/">>)
        netloc == IF hasNet THEN SubSeq(u1, 3, NetlocEnd(u1, 3) - 1) ELSE <<>>
        u2 == IF hasNet THEN Drop(u1, NetlocEnd(u1, 3) - 1) ELSE u1
        u3 == Before(u2, "#")
    IN  [ok |-> HasChar(netloc, "[") = HasChar(netloc, "]"),
         scheme |-> scheme,
         netloc |-> netloc,
         path |-> Before(u3, "?"),
         query |-> After(u3, "?"),
         fragment |-> After(u2, "#")]

\* urllib.parse._splitparams: the position of the ; that starts the
\* parameters of the last path segment, 0 when there is none
ParamsAt(path) ==
    IF HasChar(path, "/") THEN Find(path, ";", RFind(path, "/")) ELSE Find(path, ";", 1)

\* urllib.parse.urlparse
urlparse(url) ==
    LET r == urlsplit(url)
        k == IF r.scheme \in uses_params /\ HasChar(r.path, ";") THEN ParamsAt(r.path) ELSE 0
    IN  [ok |-> r.ok,
         scheme |-> r.scheme,
         netloc |-> r.netloc,
         path |-> IF k = 0 THEN r.path ELSE SubSeq(r.path, 1, k - 1),
         params |-> IF k = 0 THEN <<>> ELSE Drop(r.path, k),
         query |-> r.query,
         fragment |-> r.fragment]

\* s.split(c): the pieces of s between the occurrences of c
RECURSIVE Split(_, _)
Split(s, c) ==
    IF HasChar(s, c) THEN <<Before(s, c)>> \o Split(After(s, c), c) ELSE <<s>>

\* the characters chr(32) .. chr(95) and chr(97) .. chr(126)
AsciiLow ==
    <<" ", "!", "\"", "#", "$", "%", "&", "'", "(", ")", "*", "+",
      ",", "-", ".", "/", "0", "1", "2", "3", "4", "5", "6", "7", "8",
      "9", ":", ";", "<", "=", ">", "?", "@", "A", "B", "C", "D", "E",
      "F", "G", "H", "I", "J", "K", "L", "M", "N", "O", "P", "Q", "R",
      "S", "T", "U", "V", "W", "X", "Y", "Z", "[", "\\", "]", "^", "_">>

AsciiHigh == LowerLetters \o <<"{", "|", "}", "~">>

\* the codes of the characters above
Codes == (32..126) \ {96}

chr(v) == IF v <= 95 THEN AsciiLow[v - 31] ELSE AsciiHigh[v - 96]

HexDigits == <<"0", "1", "2", "3", "4", "5", "6", "7", "8", "9", "a", "b", "c", "d", "e", "f">>

IsHex(c) == \E k \in 1..16 : HexDigits[k] = c \/ (k > 10 /\ UpperOf[HexDigits[k]] = c)

HexVal(c) == (CHOOSE k \in 1..16 : HexDigits[k] = c \/ (k > 10 /\ UpperOf[HexDigits[k]] = c)) - 1

\* whether a %XX escape of one of these characters starts at s[i]
EscapeAt(s, i) ==
    /\ s[i] = "%"
    /\ i + 2 <= Len(s)
    /\ IsHex(s[i + 1]) /\ IsHex(s[i + 2])
    /\ 16 * HexVal(s[i + 1]) + HexVal(s[i + 2]) \in Codes

\* urllib.parse.unquote over the escapes of these characters; a % that
\* starts no escape stays
unquote(s) ==
    Concat([i \in 1..Len(s) |->
        IF EscapeAt(s, i) THEN <<chr(16 * HexVal(s[i + 1]) + HexVal(s[i + 2]))>>
        ELSE IF i > 1 /\ EscapeAt(s, i - 1) THEN <<>>
        ELSE IF i > 2 /\ EscapeAt(s, i - 2) THEN <<>>
        ELSE <<s[i]>>])

\* the name or value of a field: + is a space, then the escapes
Field(s) == unquote(Replace(s, "+", <<" ">>))

\* urllib.parse.parse_qsl: the (name, value) pairs of the fields name=value
\* of qs in their order; a field with no = or with an empty value is dropped
parse_qsl(qs) ==
    LET fields == Split(qs, "&")
        kept == {k \in 1..Len(fields) : HasChar(fields[k], "=") /\ After(fields[k], "=") # <<>>}
    IN  Concat([k \in 1..Len(fields) |->
            IF k \in kept
            THEN <<[name |-> Field(Before(fields[k], "=")), value |-> Field(After(fields[k], "="))]>>
            ELSE <<>>])

\* urllib.parse.parse_qs(qs).get(name, [""])[0]: the first value of name
First(qs, name) ==
    LET pairs == parse_qsl(qs)
        hits == {k \in 1..Len(pairs) : pairs[k].name = name}
    IN  IF hits = {} THEN <<>> ELSE pairs[CHOOSE k \in hits : \A j \in hits : k <= j].value

(***************************************************************************)
(* The files of the process.  os.dirs is the set of the directories,       *)
(* os.files maps the path of each regular file to its data and to whether  *)
(* the process may read it, os.bound tells whether another process holds   *)
(* the address the server is to listen on.  Paths are absolute and hold no *)
(* . or .. segments; a relative path is resolved against os.cwd.           *)
(***************************************************************************)
\* os.path.join of two paths
join(a, b) ==
    IF StartsWith(b, <<"/">>) THEN b
    ELSE IF a = <<>> \/ EndsWith(a, <<"/">>) THEN a \o b
    ELSE a \o <<"/">> \o b

\* the absolute path the process reads for path p
Resolve(p) == IF StartsWith(p, <<"/">>) THEN p ELSE join(os.cwd, p)

\* os.path.abspath over the root directories of the model: an absolute
\* path, or ./ for the working directory
abspath(cwd, p) ==
    IF StartsWith(p, <<"/">>) THEN p ELSE IF p \in {<<".">>, <<".", "/">>} THEN cwd ELSE join(cwd, p)

\* os.path.isfile
isfile(p) == Resolve(p) \in DOMAIN os.files

\* open(p).read() succeeds: the file is there and may be read
CanRead(p) == isfile(p) /\ os.files[Resolve(p)].readable

ReadFile(p) == os.files[Resolve(p)].data

\* str.lstrip("/")
RECURSIVE lstrip_slash(_)
lstrip_slash(s) == IF s # <<>> /\ Head(s) = "/" THEN lstrip_slash(Tail(s)) ELSE s

\* mimetypes.guess_type over the extensions of the model
guess_type(p) ==
    LET ext == IF HasChar(p, ".") THEN Drop(p, RFind(p, ".")) ELSE <<>> IN
    IF ext = <<"t", "x", "t">> THEN "text/plain"
    ELSE IF ext = <<"h", "t", "m", "l">> THEN "text/html"
    ELSE IF ext = <<"c", "s", "s">> THEN "text/css"
    ELSE None

(***************************************************************************)
(* Responses.  A response is the status line, the headers and the body the *)
(* handler has written to the client; status 0: no status line.  The       *)
(* headers and the error page that send_error writes after its status line *)
(* are left out.                                                           *)
(***************************************************************************)
send_error(status) == [status |-> status, headers |-> <<>>, body |-> <<>>]

\* send_response(200), the two send_header calls, end_headers, wfile.write
Send200(ctype, data) ==
    [status |-> 200,
     headers |-> <<<<"Content-Type", ctype>>, <<"Content-Length", NatStr(Len(data))>>>>,
     body |-> data]

\* StaticHandler(directory).handle(req, url_prefix), req.path = path: what
\* it writes, and whether it raises (open fails)
handle(directory, path, url_prefix) ==
    LET fs == join(directory, lstrip_slash(Drop(path, Len(url_prefix)))) IN
    IF ~isfile(fs) THEN [raised |-> FALSE, resp |-> send_error(404)]
    ELSE IF ~CanRead(fs) THEN [raised |-> TRUE, resp |-> NoResponse]
    ELSE [raised |-> FALSE,
          resp |-> Send200(IF guess_type(fs) = None THEN "application/octet-stream"
                           ELSE guess_type(fs), ReadFile(fs))]

\* mutant: the last registered prefix that matches
FirstStatic_last(statics, path) ==
    LET hits == {k \in 1..Len(statics) : StartsWith(path, statics[k].prefix)} IN
    IF hits = {} THEN 0 ELSE CHOOSE k \in hits : \A j \in hits : k >= j

\* for prefix, d in statics: if self.path.startswith(prefix): the place of
\* the first entry whose prefix starts the path, 0 when there is none
FirstStatic(statics, path) ==
    LET hits == {k \in 1..Len(statics) : StartsWith(path, statics[k].prefix)} IN
    IF hits = {} THEN 0 ELSE CHOOSE k \in hits : \A j \in hits : k <= j

\* the template and the context of each handler; qs is the query string or
\* the request body
TemplateOf(fn) ==
    IF fn = "index_handler" THEN <<"i", "n", "d", "e", "x", ".", "h", "t", "m", "l">>
    ELSE IF fn = "hello_handler" THEN <<"h", "e", "l", "l", "o", ".", "h", "t", "m", "l">>
    ELSE <<"w", "h", "a", "t", "s", "u", "p", ".", "h", "t", "m", "l">>

n_message == <<"m", "e", "s", "s", "a", "g", "e">>
n_info == <<"i", "n", "f", "o">>

ContextOf(fn, qs) ==
    IF fn = "index_handler" THEN EmptyDict
    ELSE IF fn = "hello_handler" THEN [n \in {n_message} |-> StrV(First(qs, n_message))]
    ELSE [n \in {n_info} |-> StrV(First(qs, n_info))]

\* TemplateEngine(template_dir="templates")
template_dir == <<"t", "e", "m", "p", "l", "a", "t", "e", "s">>

(***************************************************************************)
(* A WebServer used as main.py uses it: made, entered as a context         *)
(* manager, started, serving one request after the other, stopped, left.   *)
(***************************************************************************)
MaxRegs == 1

\* the directories and the two sets of files of the model
Dirs == {<<"/", "w">>, <<"/", "r">>, <<"/", "r", "/", "t", "e", "m", "p", "l", "a", "t", "e", "s">>, <<"/", "r", "/", "s", "t", "a", "t", "i", "c">>, <<"/", "d">>}

TagIfMessage == <<"<", "%", " ", "i", "f", " ", "m", "e", "s", "s", "a", "g", "e", ":", " ", "%", ">">>
TagMessage == <<"<", "%", "=", " ", "m", "e", "s", "s", "a", "g", "e", " ", "%", ">">>
TagInfo == <<"<", "%", "=", " ", "i", "n", "f", "o", " ", "%", ">">>

File(path, data, readable) == [path |-> path, data |-> data, readable |-> readable]

StaticFiles ==
    {File(<<"/", "r", "/", "s", "t", "a", "t", "i", "c", "/", "a", ".", "t", "x", "t">>, <<"h", "i">>, TRUE), File(<<"/", "r", "/", "s", "t", "a", "t", "i", "c", "/", "b", ".", "t", "x", "t">>, <<"n", "o">>, FALSE),
     File(<<"/", "d", "/", "a", ".", "t", "x", "t">>, <<"d">>, TRUE)}

Sites ==
    {StaticFiles \cup
        {File(<<"/", "r", "/", "t", "e", "m", "p", "l", "a", "t", "e", "s", "/", "i", "n", "d", "e", "x", ".", "h", "t", "m", "l">>, TagAssign \o TagX, TRUE),
         File(<<"/", "r", "/", "t", "e", "m", "p", "l", "a", "t", "e", "s", "/", "h", "e", "l", "l", "o", ".", "h", "t", "m", "l">>,
              TagIfMessage \o <<"A">> \o TagElse \o <<"B">> \o TagEndif \o TagMessage, TRUE),
         File(<<"/", "r", "/", "t", "e", "m", "p", "l", "a", "t", "e", "s", "/", "w", "h", "a", "t", "s", "u", "p", ".", "h", "t", "m", "l">>, <<"T">> \o TagU, TRUE)},
     StaticFiles \cup
        {File(<<"/", "r", "/", "t", "e", "m", "p", "l", "a", "t", "e", "s", "/", "h", "e", "l", "l", "o", ".", "h", "t", "m", "l">>, TagIfMessage \o TagEndif, TRUE),
         File(<<"/", "r", "/", "t", "e", "m", "p", "l", "a", "t", "e", "s", "/", "w", "h", "a", "t", "s", "u", "p", ".", "h", "t", "m", "l">>, TagInfo, TRUE)}}

FilesOf(site) ==
    [p \in {f.path : f \in site} |->
        LET f == CHOOSE g \in site : g.path = p IN [data |-> f.data, readable |-> f.readable]]

\* the arguments WebServer is made with and static and router.add are
\* called with before the server is entered
RootDirs == {<<".", "/">>, <<"/", "r">>, <<"/", "x">>}

StaticRegs == {[prefix |-> <<"/", "s">>, directory |-> <<"/", "d">>], [prefix |-> <<"/">>, directory |-> <<"/", "d">>]}

RouteRegs ==
    {[method |-> m_GET, path |-> <<"/", "s", "t", "a", "t", "i", "c", "/", "a", ".", "t", "x", "t">>, handler |-> "index_handler"],
     [method |-> <<"p", "o", "s", "t">>, path |-> <<"/", "h", "e", "l", "l", "o">>, handler |-> "hello_handler"],
     [method |-> m_GET, path |-> <<"/">>, handler |-> "hello_handler"]}

\* the requests of the model: method, request target, the values of the
\* Content-Length headers (none or one) and body
Req(method, target, clen, body) ==
    [method |-> method, target |-> target, clen |-> clen, body |-> body]

GetTargets ==
    {<<"/">>, <<"/", "h", "e", "l", "l", "o">>, <<"/", "h", "e", "l", "l", "o", "?", "m", "e", "s", "s", "a", "g", "e", "=", "a", "%", "2", "6", "b">>, <<"/", "h", "e", "l", "l", "o", ";", "p">>, <<"/", "/", "h", "e", "l", "l", "o">>, <<"/", "w", "h", "a", "t", "s", "u", "p">>,
     <<"/", "n", "o", "p", "e">>, <<"/", "s", "t", "a", "t", "i", "c", "/", "a", ".", "t", "x", "t">>, <<"/", "s", "t", "a", "t", "i", "c", "/", "b", ".", "t", "x", "t">>, <<"/", "s", "t", "a", "t", "i", "c", "/", "z", "z">>, <<"/", "s", "t", "a", "t", "i", "c", "/", "a", ".", "t", "x", "t", "?", "x", "=", "1">>,
     <<"/", "s", "x">>, <<"a", ":", "/", "/", "[">>}

Requests ==
    {Req(m_GET, t, <<>>, <<>>) : t \in GetTargets} \cup
    {Req(m_POST, t, <<>>, <<>>) : t \in {<<"/", "n", "o", "p", "e">>, <<"/", "h", "e", "l", "l", "o">>, <<"/", "s", "t", "a", "t", "i", "c", "/", "a", ".", "t", "x", "t">>, <<"a", ":", "/", "/", "[">>}} \cup
    {Req(m_POST, <<"/", "w", "h", "a", "t", "s", "u", "p">>, <<<<"6">>>>, <<"i", "n", "f", "o", "=", "a">>), Req(m_POST, <<"/", "w", "h", "a", "t", "s", "u", "p">>, <<>>, <<"i", "n", "f", "o", "=", "a">>),
     Req(m_POST, <<"/", "w", "h", "a", "t", "s", "u", "p">>, <<<<"x">>>>, <<"i", "n", "f", "o", "=", "a">>)}

\* WebServer.__init__
NewServer(cwd, root_dir) ==
    LET root == abspath(cwd, root_dir) IN
    [root |-> root,
     routes |-> add(add(add(<<>>, m_GET, <<"/">>, "index_handler"),
                        m_GET, <<"/", "h", "e", "l", "l", "o">>, "hello_handler"),
                    m_POST, <<"/", "w", "h", "a", "t", "s", "u", "p">>, "whatsup_handler"),
     statics |-> <<[prefix |-> <<"/", "s", "t", "a", "t", "i", "c", "/">>, directory |-> join(root, <<"s", "t", "a", "t", "i", "c">>)]>>,
     orig |-> None,
     httpd |-> None]

ServerInit ==
    /\ NoRender
    /\ \E cwd \in {<<"/", "w">>, <<"/", "r">>}, site \in Sites, bound \in BOOLEAN, root_dir \in RootDirs :
        /\ os = [cwd |-> cwd, dirs |-> Dirs, files |-> FilesOf(site), bound |-> bound,
                 escape |-> EscapeFn]
        /\ server = NewServer(cwd, root_dir)
        /\ hist = [cwd |-> cwd, regs |-> 0]
    /\ conn = NoConn
    /\ at = "made"

\* WebServer.static
Static(url_prefix, directory) ==
    /\ at = "made"
    /\ hist.regs < MaxRegs
    /\ server' = [server EXCEPT !.statics =
                     Append(@, [prefix |-> url_prefix, directory |-> directory])]
    /\ hist' = [hist EXCEPT !.regs = @ + 1]
    /\ UNCHANGED <<src, context, pc, code, prog, ip, locals, taken, buf, out, err,
                   os, conn, at>>

\* server.router.add
AddRoute(method, path, handler) ==
    /\ at = "made"
    /\ hist.regs < MaxRegs
    /\ server' = [server EXCEPT !.routes = add(@, method, path, handler)]
    /\ hist' = [hist EXCEPT !.regs = @ + 1]
    /\ UNCHANGED <<src, context, pc, code, prog, ip, locals, taken, buf, out, err,
                   os, conn, at>>

\* WebServer.__enter__.  os.chdir raises when the root is no directory,
\* HTTPServer raises when the address is in use; an exception of __enter__
\* leaves the with statement, and __exit__ is not called.
Enter ==
    /\ at = "made"
    /\ IF server.root \notin os.dirs
       THEN /\ server' = [server EXCEPT !.orig = os.cwd]
            /\ at' = "over"
            /\ os' = os
       ELSE IF os.bound
       THEN /\ server' = [server EXCEPT !.orig = os.cwd]
            /\ at' = "over"
            /\ os' = [os EXCEPT !.cwd = server.root]
       ELSE /\ server' = [server EXCEPT !.orig = os.cwd, !.httpd = "open"]
            /\ at' = "entered"
            /\ os' = [os EXCEPT !.cwd = server.root]
    /\ UNCHANGED <<src, context, pc, code, prog, ip, locals, taken, buf, out, err,
                   conn, hist>>

\* WebServer.start up to serve_forever
Start ==
    /\ at = "entered"
    /\ at' = "serving"
    /\ UNCHANGED <<src, context, pc, code, prog, ip, locals, taken, buf, out, err,
                   server, os, conn, hist>>

\* BaseHTTPRequestHandler reads the request line and the headers and calls
\* do_GET or do_POST; a target that starts with // has lost all but one of
\* its leading slashes by then
Receive(req) ==
    /\ at = "serving"
    /\ conn.step \in {"none", "closed"}
    /\ conn' = [method |-> req.method,
                path |-> IF StartsWith(req.target, <<"/", "/">>)
                         THEN <<"/">> \o lstrip_slash(req.target) ELSE req.target,
                clen |-> req.clen,
                body |-> req.body,
                step |-> "dispatch",
                dir |-> <<>>,
                fn |-> None,
                resp |-> NoResponse]
    /\ src' = <<>>
    /\ context' = EmptyDict
    /\ pc' = "idle"
    /\ code' = <<>>
    /\ prog' = <<>>
    /\ ip' = 0
    /\ locals' = EmptyDict
    /\ taken' = {}
    /\ buf' = <<>>
    /\ out' = <<>>
    /\ err' = ""
    /\ UNCHANGED <<server, os, hist, at>>

\* the request is over and nothing more is written: the handler returned,
\* or it raised and the server closed the connection
Closed(resp) == conn' = [conn EXCEPT !.step = "closed", !.resp = resp]

\* the handler raises before render runs
Raised(e) ==
    /\ Closed(NoResponse)
    /\ UNCHANGED <<src, context, pc, code, prog, ip, locals, taken, buf, out, err>>

\* fn(self, qs, engine) up to tpl(name, context): render opens the template
Call(fn, qs) ==
    LET path == join(template_dir, TemplateOf(fn)) IN
    /\ context' = ContextOf(fn, qs)
    /\ UNCHANGED <<code, prog, ip, locals, taken, buf, out>>
    /\ IF CanRead(path)
       THEN /\ src' = ReadFile(path)
            /\ pc' = "start"
            /\ err' = err
            /\ conn' = [conn EXCEPT !.step = "handler", !.fn = fn]
       ELSE /\ src' = src
            /\ pc' = "error"
            /\ err' = "FileNotFoundError"
            /\ conn' = [conn EXCEPT !.step = "closed", !.fn = fn]

\* _Handler.do_GET
do_GET ==
    /\ at = "serving"
    /\ conn.step = "dispatch" /\ conn.method = m_GET
    /\ LET k == FirstStatic(server.statics, conn.path)
           parsed == urlparse(conn.path)
           fn == match(server.routes, m_GET, parsed.path)
       IN  IF k # 0
           THEN /\ conn' = [conn EXCEPT
                                !.step = "closed",
                                !.dir = server.statics[k].directory,
                                !.resp = handle(server.statics[k].directory, conn.path,
                                                server.statics[k].prefix).resp]
                /\ UNCHANGED <<src, context, pc, code, prog, ip, locals, taken, buf, out, err>>
           ELSE IF ~parsed.ok THEN Raised("ValueError")
           ELSE IF fn = None
           THEN /\ Closed(send_error(404))
                /\ UNCHANGED <<src, context, pc, code, prog, ip, locals, taken, buf, out, err>>
           ELSE Call(fn, parsed.query)
    /\ UNCHANGED <<server, os, hist, at>>

\* int(self.headers.get("Content-Length", "0")) over decimal digits; ok is
\* FALSE when int raises ValueError
ContentLength(clen) ==
    LET v == IF clen = <<>> THEN <<"0">> ELSE clen[1] IN
    IF v # <<>> /\ \A i \in 1..Len(v) : v[i] \in Digits
    THEN [ok |-> TRUE, n |-> IntLitVal(v)]
    ELSE [ok |-> FALSE, n |-> 0]

\* _Handler.do_POST; rfile.read(length) over a body that is at least
\* length long
do_POST ==
    /\ at = "serving"
    /\ conn.step = "dispatch" /\ conn.method = m_POST
    /\ LET parsed == urlparse(conn.path)
           fn == match(server.routes, m_POST, parsed.path)
           length == ContentLength(conn.clen)
       IN  IF ~parsed.ok THEN Raised("ValueError")
           ELSE IF fn = None
           THEN /\ Closed(send_error(404))
                /\ UNCHANGED <<src, context, pc, code, prog, ip, locals, taken, buf, out, err>>
           ELSE IF ~length.ok THEN Raised("ValueError")
           ELSE Call(fn, SubSeq(conn.body, 1, length.n))
    /\ UNCHANGED <<server, os, hist, at>>

\* mutant: the status line and the headers go out before render is called
Respond_early ==
    /\ at = "serving"
    /\ conn.step = "handler" /\ pc \in {"start", "done"}
    /\ IF pc = "start"
       THEN conn' = [conn EXCEPT !.resp = [status |-> 200, headers |-> <<>>, body |-> <<>>]]
       ELSE Closed(Send200("text/html; charset=utf-8", out))
    /\ pc' = IF pc = "start" THEN "start" ELSE pc
    /\ UNCHANGED <<src, context, code, prog, ip, locals, taken, buf, out, err,
                   server, os, hist, at>>

\* the handler after tpl returned body: send_response(200), the headers,
\* the body
Respond ==
    /\ at = "serving"
    /\ conn.step = "handler" /\ pc = "done"
    /\ Closed(Send200("text/html; charset=utf-8", out))
    /\ UNCHANGED <<src, context, pc, code, prog, ip, locals, taken, buf, out, err,
                   server, os, hist, at>>

\* render raised: the exception leaves the handler and do_GET or do_POST,
\* and the server closes the connection
Abort ==
    /\ at = "serving"
    /\ conn.step = "handler" /\ pc = "error"
    /\ Closed(conn.resp)
    /\ UNCHANGED <<src, context, pc, code, prog, ip, locals, taken, buf, out, err,
                   server, os, hist, at>>

\* serve_forever is left by KeyboardInterrupt or by another exception; the
\* finally clause of start closes the server
Stop(exc) ==
    /\ at = "serving"
    /\ conn.step \in {"none", "closed"}
    /\ server' = [server EXCEPT !.httpd = "closed"]
    /\ at' = "stopped"
    /\ UNCHANGED <<src, context, pc, code, prog, ip, locals, taken, buf, out, err,
                   os, conn, hist>>

\* WebServer.__exit__
Exit ==
    /\ at = "stopped"
    /\ server' = [server EXCEPT !.httpd = IF @ # None THEN "closed" ELSE @]
    /\ os' = [os EXCEPT !.cwd = server.orig]
    /\ at' = "over"
    /\ UNCHANGED <<src, context, pc, code, prog, ip, locals, taken, buf, out, err,
                   conn, hist>>

ServerNext ==
    \/ \E r \in StaticRegs : Static(r.prefix, r.directory)
    \/ \E r \in RouteRegs : AddRoute(r.method, r.path, r.handler)
    \/ Enter
    \/ Start
    \/ \E req \in Requests : Receive(req)
    \/ do_GET
    \/ do_POST
    \/ Compile
    \/ ExecSyntaxError
    \/ ExecCall
    \/ StepWrite
    \/ StepEscape
    \/ StepAssign
    \/ StepIf
    \/ StepElse
    \/ StepReturn
    \/ Respond
    \/ Abort
    \/ \E exc \in {"KeyboardInterrupt", "OSError"} : Stop(exc)
    \/ Exit

ServerSpec == ServerInit /\ [][ServerNext]_vars

(***************************************************************************)
(* One TemplateEngine and a sequence of render calls on it.  hist.first    *)
(* holds, for each template and context rendered so far, what the first    *)
(* call with them returned or raised.                                      *)
(***************************************************************************)
MaxCalls == 3

TagSetEscape == <<"<", "%", " ", "h", "t", "m", "l", ".", "e", "s", "c", "a", "p", "e", " ", "=", " ", "s", "t", "r", " ", "%", ">">>

Ctx(name, v) == [n \in {name} |-> v]

\* the templates and contexts of the calls
SeqInputs ==
    {[src |-> <<"T">> \o TagV, context |-> Ctx(<<"v">>, StrV(<<"<">>))],
     [src |-> TagSetEscape, context |-> EmptyDict],
     [src |-> TagIf \o <<"A">> \o TagElse \o <<"B">> \o TagEndif \o TagAssign \o TagX,
      context |-> Ctx(<<"c">>, BoolV(TRUE))],
     [src |-> TagIf \o <<"A">> \o TagElse \o <<"B">> \o TagEndif \o TagAssign \o TagX,
      context |-> Ctx(<<"c">>, BoolV(FALSE))],
     [src |-> TagX \o TagAssign, context |-> EmptyDict],
     [src |-> TagIf \o TagEndif, context |-> EmptyDict]}

\* TemplateEngine(template_dir)
SeqInit ==
    /\ NoRender
    /\ server = [root |-> None, routes |-> <<>>, statics |-> <<>>, orig |-> None,
                 httpd |-> None]
    /\ os = [cwd |-> None, dirs |-> {}, files |-> <<>>, bound |-> FALSE, escape |-> EscapeFn]
    /\ conn = NoConn
    /\ hist = [n |-> 0, first |-> <<>>]
    /\ at = "engine"

\* the local variables of _render when it is called
CallLocals == EmptyDict

\* engine.render(tpl_name, context) is called: src is what the template
\* file holds
CallRender(input) ==
    /\ at = "engine"
    /\ pc = "idle"
    /\ hist.n < MaxCalls
    /\ src' = input.src
    /\ context' = input.context
    /\ pc' = "start"
    /\ locals' = CallLocals
    /\ hist' = [hist EXCEPT !.n = @ + 1]
    /\ UNCHANGED <<code, prog, ip, taken, buf, out, err, server, os, conn, at>>

\* whether hist.first holds the template and the context of this call
Rendered == \E k \in 1..Len(hist.first) :
                hist.first[k].src = src /\ hist.first[k].context = context

\* the call is over: render has returned out or raised err to its caller
Returned ==
    /\ at = "engine"
    /\ pc \in {"done", "error"}
    /\ hist' = IF Rendered THEN hist
               ELSE [hist EXCEPT !.first =
                        Append(@, [src |-> src, context |-> context, pc |-> pc,
                                   out |-> out, err |-> err])]
    /\ src' = <<>>
    /\ context' = EmptyDict
    /\ pc' = "idle"
    /\ code' = <<>>
    /\ prog' = <<>>
    /\ ip' = 0
    /\ taken' = {}
    /\ buf' = <<>>
    /\ out' = <<>>
    /\ err' = ""
    /\ UNCHANGED <<locals, server, os, conn, at>>

SeqNext ==
    \/ \E input \in SeqInputs : CallRender(input)
    \/ Compile
    \/ ExecSyntaxError
    \/ ExecCall
    \/ StepWrite
    \/ StepEscape
    \/ StepSetAttr
    \/ StepAssign
    \/ StepIf
    \/ StepElse
    \/ StepReturn
    \/ Returned

SeqSpec == SeqInit /\ [][SeqNext]_vars

(***************************************************************************)
(* The template as the specification reads it: the nodes of the source in  *)
(* order, and the if / elif / else / endif structure over them kept on an  *)
(* explicit stack of open blocks.                                          *)
(***************************************************************************)
\* the tokens alternate: texts at the odd places, delimiters at the even
\* ones; the delimiter before a text tells what the text is
ModeOf(delim) ==
    IF delim = StartCode THEN "stmt" ELSE IF delim = StartExpr THEN "expr" ELSE "text"

ModeAt(toks, k) == IF k = 1 THEN "text" ELSE ModeOf(toks[k - 1])

NodesAt(toks, k) ==
    LET mode == ModeAt(toks, k) IN
    IF mode = "text"
    THEN (IF toks[k] = <<>> THEN <<>> ELSE <<[type |-> "text", text |-> toks[k]]>>)
    ELSE IF mode = "stmt" /\ strip(toks[k]) = <<>> THEN <<>>
    ELSE <<[type |-> mode, text |-> strip(toks[k])]>>

Nodes(s) ==
    LET toks == re_split(s) IN
    Concat([j \in 1..((Len(toks) + 1) \div 2) |-> NodesAt(toks, 2 * j - 1)])

NodeKind(n) ==
    IF n.type # "stmt" THEN n.type
    ELSE IF n.text = kw_endif THEN "endif"
    ELSE IF n.text = ElseLine THEN "else"
    ELSE IF Wrapped(n.text, IfOpen, <<":">>) THEN "if"
    ELSE IF Wrapped(n.text, ElifOpen, <<":">>) THEN "elif"
    ELSE "stmt"

CondName(n) ==
    strip(Between(n.text, IF NodeKind(n) = "if" THEN IfOpen ELSE ElifOpen, <<":">>))

\* the depth of open if blocks after the nodes, from depth d; -1 once an
\* endif has met no open if
RECURSIVE DepthAfter(_, _)
DepthAfter(ns, d) ==
    IF ns = <<>> \/ d < 0 THEN d
    ELSE IF NodeKind(Head(ns)) = "if" THEN DepthAfter(Tail(ns), d + 1)
    ELSE IF NodeKind(Head(ns)) = "endif" THEN DepthAfter(Tail(ns), d - 1)
    ELSE DepthAfter(Tail(ns), d)

\* some endif has no open if to close
UnmatchedEndif(s) == DepthAfter(Nodes(s), 0) < 0

\* some if is open after the last node (an endif that meets no open if
\* closes nothing)
RECURSIVE OpenAtEnd(_, _)
OpenAtEnd(ns, d) ==
    IF ns = <<>> THEN d > 0
    ELSE IF NodeKind(Head(ns)) = "if" THEN OpenAtEnd(Tail(ns), d + 1)
    ELSE IF NodeKind(Head(ns)) = "endif" THEN OpenAtEnd(Tail(ns), Max(d - 1, 0))
    ELSE OpenAtEnd(Tail(ns), d)

OpenIf(s) == OpenAtEnd(Nodes(s), 0)

\* The reference renderer of section 4.3 over text nodes, control keywords
\* and expression nodes.  A stack entry is an open block: live (the block
\* itself is rendered), taken (a branch of it has been selected), on (the
\* current branch is the selected one), last (its else has been seen).
\* The result: the output, whether a rendered expression was evaluated, and
\* whether elif or else stood outside an open if or after its else.
RefOn(stack) == stack = <<>> \/ stack[Len(stack)].on

RefCond(n) == Truthy(context[CondName(n)])

RefTop(stack, on, last) ==
    [stack EXCEPT ![Len(stack)] =
        [live |-> @.live, taken |-> @.taken \/ on, on |-> on, last |-> last]]

RECURSIVE RefRender(_, _, _)
RefRender(ns, stack, acc) ==
    IF ns = <<>> THEN [acc EXCEPT !.bad = @ \/ stack # <<>>]
    ELSE LET n == Head(ns)
             k == NodeKind(n)
             top == stack[Len(stack)]
         IN
         IF k = "text"
         THEN RefRender(Tail(ns), stack,
                        IF RefOn(stack) THEN [acc EXCEPT !.out = @ \o n.text] ELSE acc)
         ELSE IF k = "expr"
         THEN RefRender(Tail(ns), stack,
                        IF RefOn(stack) THEN [acc EXCEPT !.evaluated = TRUE] ELSE acc)
         ELSE IF k = "stmt" THEN RefRender(Tail(ns), stack, acc)
         ELSE IF k = "if"
         THEN LET on == RefOn(stack) /\ RefCond(n) IN
              RefRender(Tail(ns),
                        Append(stack, [live |-> RefOn(stack), taken |-> on, on |-> on,
                                       last |-> FALSE]),
                        acc)
         ELSE IF stack = <<>> THEN [acc EXCEPT !.bad = TRUE]
         ELSE IF k = "endif"
         THEN RefRender(Tail(ns), SubSeq(stack, 1, Len(stack) - 1), acc)
         ELSE IF top.last THEN [acc EXCEPT !.bad = TRUE]
         ELSE IF k = "elif"
         THEN RefRender(Tail(ns),
                        RefTop(stack, top.live /\ ~top.taken /\ RefCond(n), FALSE), acc)
         ELSE RefRender(Tail(ns), RefTop(stack, top.live /\ ~top.taken, TRUE), acc)

Reference == RefRender(Nodes(src), <<>>, [out |-> <<>>, evaluated |-> FALSE, bad |-> FALSE])

\* the templates the reference renderer covers: text, control keywords over
\* names of the context, and expressions over a name u defined nowhere
Probe == <<"u">>

Covered ==
    LET ns == Nodes(src) IN
    \A i \in 1..Len(ns) :
        LET n == ns[i] IN
        \/ NodeKind(n) \in {"text", "endif", "else"}
        \/ NodeKind(n) \in {"if", "elif"} /\ CondName(n) \in DOMAIN context
        \/ NodeKind(n) = "expr" /\ n.text = Probe

Finished == pc \in {"done", "error"}

\* a tag is opened and the input ends before its %>: the last token is
\* not a text outside tags
UnclosedTag(s) == ModeAt(re_split(s), Len(re_split(s))) # "text"

\* the entity of a character, by the HTML entity rules
EntityOf(c) ==
    CASE c = "&" -> <<"&", "a", "m", "p", ";">>
      [] c = "<" -> <<"&", "l", "t", ";">>
      [] c = ">" -> <<"&", "g", "t", ";">>
      [] c = "\"" -> <<"&", "q", "u", "o", "t", ";">>
      [] c = "'" -> <<"&", "#", "x", "2", "7", ";">>
      [] OTHER -> <<c>>

EntityText(s) == Concat([i \in 1..Len(s) |-> EntityOf(s[i])])

n_v == <<"v">>
n_x == <<"x">>
n_c == <<"c">>

(***************************************************************************)
(* Claims                                                                  *)
(***************************************************************************)

C3_BalancedRenders ==
    (pc = "error" /\ Covered /\ ~Reference.bad) => err # "SyntaxError"

\* C4: a template with an endif that no open if matches never renders.
C4_UnmatchedEndifFails == UnmatchedEndif(src) => pc # "done"

\* C5: a template with an if still open at the end of input never renders.
C5_OpenIfFails == OpenIf(src) => pc # "done"

\* C6: a template whose last tag is opened and never closed never renders.
C6_UnclosedTagFails == UnclosedTag(src) => pc # "done"

C8_OutsideTagsVerbatim ==
    (Finished /\ ~Contains(src, StartCode)) => pc = "done" /\ out = src

\* C9: once an assignment to a name has executed, an expression that reads
\* the name renders the assigned value and a condition that reads it takes
\* the branch the assigned value selects, whatever the context held under
\* the name; <% x = 1 %><%= x %> renders "1" and <% x = 1 %><% if x: %>T
\* renders "T".
C9_AssignmentVisible ==
    /\ [](Finished /\ src = TagAssign \o TagX => pc = "done" /\ out = <<"1">>)
    /\ [](Finished /\ src = TagAssign \o TagIfX \o <<"T">> => pc = "done" /\ out = <<"T">>)
    /\ [][pc = "running" /\ Stmt.kind = "escape" /\ Stmt.a \in DOMAIN locals
            => pc' = "running" /\ buf' = Append(buf, EntityText(str(locals[Stmt.a])))]_vars
    /\ [][pc = "running" /\ Stmt.kind = "if" /\ Stmt.a \in DOMAIN locals
            => pc' = "running" /\ (ip' = ip + 1 <=> Truthy(locals[Stmt.a]))]_vars

\* C9 witness: <% x = 1 %><%= x %> has rendered "1" over a context with x = 0
C9_Witness ==
    /\ pc = "done"
    /\ src = TagAssign \o TagX
    /\ n_x \in DOMAIN context
    /\ context[n_x] = IntV(0)
    /\ out = <<"1">>

\* C10: an expression that names neither a key of the context nor a name an
\* earlier statement assigned fails when it is evaluated.
C10_OnlyContextNames ==
    (pc = "running" /\ Stmt.kind = "escape" /\ IsIdent(Stmt.a)
        /\ Stmt.a \notin DOMAIN context \cup DOMAIN locals) => Eval(Stmt.a).err # ""

\* C11: the mapping the caller passed holds, after render has returned, every
\* name an executed assignment bound, with the value assigned.
C11_ContextMutated ==
    pc = "done" =>
        \A n \in DOMAIN locals : n \in DOMAIN context /\ context[n] = locals[n]

\* the lower-case letter of each upper-case letter
CaseFold == [c \in {UpperLetters[k] : k \in 1..26} |->
                LowerLetters[CHOOSE k \in 1..26 : UpperLetters[k] = c]]

\* two strings are equal when the case of the letters a-z is ignored
EqNoCase(a, b) ==
    /\ Len(a) = Len(b)
    /\ \A i \in 1..Len(a) :
          (IF a[i] \in DOMAIN CaseFold THEN CaseFold[a[i]] ELSE a[i])
              = (IF b[i] \in DOMAIN CaseFold THEN CaseFold[b[i]] ELSE b[i])

\* the add calls made so far for the path p and a method equal to m when
\* case is ignored
AddsFor(m, p) == {i \in 1..Len(hist) : hist[i].path = p /\ EqNoCase(hist[i].method, m)}

\* C12: after any sequence of add calls, match(m, p) is the handler of the
\* last add whose path is p exactly and whose method is m ignoring case,
\* and None when there is no such add; an add leaves the result of match
\* for every other pair as it was.
C12_RouterLastAddWins ==
    /\ [](at = "router" =>
            \A m \in MatchMethods, p \in RouterPaths :
                match(server.routes, m, p) =
                    IF AddsFor(m, p) = {} THEN None
                    ELSE hist[CHOOSE i \in AddsFor(m, p) : \A j \in AddsFor(m, p) : j <= i].handler)
    /\ [][at = "router" /\ hist' # hist =>
            \A m \in MatchMethods, p \in RouterPaths :
                ~(p = hist'[Len(hist')].path /\ EqNoCase(m, hist'[Len(hist')].method))
                    => match(server'.routes, m, p) = match(server.routes, m, p)]_vars

\* C12 witness: add("get", "/a", h1), then add("GET", "/a", h2), then an add
\* for "/A": match("Get", "/a") is h2, the handler of the second call
C12_Witness ==
    /\ at = "router"
    /\ Len(hist) = 3
    /\ hist[1] = [method |-> <<"g", "e", "t">>, path |-> <<"/", "a">>, handler |-> "index_handler"]
    /\ hist[2] = [method |-> m_GET, path |-> <<"/", "a">>, handler |-> "hello_handler"]
    /\ hist[3].path = <<"/", "A">>
    /\ match(server.routes, <<"G", "e", "t">>, <<"/", "a">>) = "hello_handler"
    /\ match(server.routes, m_POST, <<"/", "a">>) = None

(***************************************************************************)
(* The claims about the server                                             *)
(***************************************************************************)
\* the request is over: its handler returned or raised
RequestOver == at = "serving" /\ conn.step = "closed"

\* a static prefix serves the request: it is a GET and some registered
\* prefix starts its target
ServedStatic == conn.method = m_GET /\ \E k \in 1..Len(server.statics) :
                    StartsWith(conn.path, server.statics[k].prefix)

\* a route is registered for the method and the path of the target
HasRoute ==
    /\ urlparse(conn.path).ok
    /\ <<conn.method, urlparse(conn.path).path>> \in DOMAIN server.routes

\* C13: a GET or POST request that no static prefix serves and whose method
\* and path have no registered route is answered with status 404, and the
\* template engine is not invoked for it
C13_UnroutedIs404 ==
    RequestOver /\ ~ServedStatic /\ ~HasRoute => conn.resp.status = 404 /\ pc = "idle"

\* C14: a request to a registered route or to a static prefix never ends
\* without a status line, and when render failed (the template is missing
\* or a node raised) the status is a server error
C14_FailuresAnswered ==
    RequestOver /\ (ServedStatic \/ HasRoute) =>
        /\ conn.resp.status # 0
        /\ pc = "error" => conn.resp.status \in 500..599

\* C15: a render in which a node fails returns no string, whatever has
\* been buffered by then: nothing of it reaches the client; and a route
\* handler writes its status line, headers and body only once render has
\* returned
C15_AllOrNothing ==
    /\ [](at = "serving" /\ err # "" => out = <<>> /\ conn.resp = NoResponse)
    /\ [][conn'.fn # None /\ conn'.resp # conn.resp => pc = "done" /\ conn'.resp.body = out]_vars

\* a render has failed with text in the buffer, and the request is over
C15_Witness ==
    /\ RequestOver
    /\ conn.fn = "whatsup_handler"
    /\ err = "NameError"
    /\ buf = <<<<"T">>>>

(***************************************************************************)
(* The claims about sequences of renders                                   *)
(***************************************************************************)
\* C16: what a render call returns or raises depends only on its template
\* and its context, whatever calls the engine has served before; and the
\* names a render sees as assigned are those its own statements assign
C16_RendersIndependent ==
    /\ at = "engine" /\ pc \in {"done", "error"} =>
          \A k \in 1..Len(hist.first) :
              hist.first[k].src = src /\ hist.first[k].context = context =>
                  hist.first[k].pc = pc /\ hist.first[k].out = out /\ hist.first[k].err = err
    /\ at = "engine" /\ pc = "running" => DOMAIN locals \subseteq AssignedNames(prog)

(***************************************************************************)
(* The claims about statements                                             *)
(***************************************************************************)
\* C17: a statement that only begins with the letters else or elif is an
\* ordinary statement: the assignment elsewhere = 1 is executed where it
\* stands, the nesting stays as it is, and the expression after it shows 1
C17_KeywordsExact ==
    Finished /\ src \in KeywordTemplates =>
        /\ pc = "done"
        /\ src = TagElsewhere \o TagE => out = <<"1">>
        /\ src = <<"T">> \o TagElsewhere => out = <<"T">>
        /\ src = TagIf \o TagElsewhere \o TagE \o TagEndif =>
              out = IF Truthy(context[n_c]) THEN <<"1">> ELSE <<>>
        /\ src = TagIf \o <<"A">> \o TagElsewhere \o TagE \o TagEndif =>
              out = IF Truthy(context[n_c]) THEN <<"A", "1">> ELSE <<>>

\* C18: an assignment to a name that is a key of the context changes it for
\* the nodes after it only: the expression before the assignment shows the
\* value the caller gave, the one after it the new value
C18_UpdateLaterOnly ==
    Finished /\ src = TagX \o TagAssign \o TagX /\ n_x \in DOMAIN context =>
        pc = "done" /\ out = str(context[n_x]) \o <<"1">>

\* the places of the registered static prefixes that start the target
StaticHits == {k \in 1..Len(server.statics) : StartsWith(conn.path, server.statics[k].prefix)}

\* C19: a GET whose target, query string and all, starts with a registered
\* static prefix is handled by the static responder of the first such
\* prefix in registration order and by no route handler, whatever routes
\* are registered; no other request is handled by a static responder
C19_StaticFirst ==
    RequestOver =>
        IF conn.method = m_GET /\ StaticHits # {}
        THEN LET k == CHOOSE i \in StaticHits : \A j \in StaticHits : i <= j IN
             /\ conn.dir = server.statics[k].directory
             /\ conn.resp = handle(conn.dir, conn.path, server.statics[k].prefix).resp
             /\ conn.fn = None /\ pc = "idle"
        ELSE conn.dir = <<>>

\* two registered prefixes start the target of a GET, and the first has
\* served the file
C19_Witness ==
    /\ RequestOver
    /\ conn.method = m_GET
    /\ conn.path = <<"/", "s", "t", "a", "t", "i", "c", "/", "a", ".", "t", "x", "t">>
    /\ Cardinality(StaticHits) = 2
    /\ conn.resp.status = 200
    /\ conn.resp.body = <<"h", "i">>

\* C20: once the use of the server as a context manager is over (the with
\* block was left, or __enter__ raised), the working directory of the
\* process is what it was before __enter__ was called
C20_CwdRestored == at = "over" => os.cwd = hist.cwd

====
